---------------------------- MODULE Spec2Model ----------------------------
(***************************************************************************)
(* Model of the isothermal, isobaric plug-flow-reactor solver pfr_drm of   *)
(* simulation/pfr_drm_cantera.py: pre-flight validation, construction of   *)
(* the inlet flow vector, the explicit Euler march over nseg segments with *)
(* its catch-and-continue handler, and the final normalisation.            *)
(*                                                                         *)
(* Numbers.  The program computes in IEEE doubles; the model computes in   *)
(* exact fixed-point integer arithmetic on the following grid (rounding    *)
(* error of the doubles is not modelled):                                  *)
(*   temperatures      centi-degrees (0.01 C, 0.01 K)                      *)
(*   total pressure    Pa;  partial pressures  kPa                         *)
(*   inlet rates       0.001 ml/min                                        *)
(*   molar flows       nmol/s;  volumes  1e-9 m^3                          *)
(*   molar density     mmol/m^3                                            *)
(*   activation energy kJ/mol;  rate constant  0.001 mol/(m^3 s kPa^n)     *)
(*   exp, tanh         per mille                                           *)
(* A quantity smaller than one grid step is carried as 0; the guard values *)
(* 1e-30 (flow) lie below the grid, so "Ft <= 1e-30" reads "Ft <= 0".      *)
(***************************************************************************)
EXTENDS Integers, Sequences, FiniteSets, TLC

VARIABLES
    args,         \* the arguments of the call: T_C, P_bar, fCH4, fCO2, fN2, GHSV, nseg, kin
    pc,           \* position of the call: "validate", "inlet", "segment", "finish", "returned", "raised"
    kin,          \* the local kin: NoKin, "Default" or the tag of the object passed
    gasBuilt,     \* number of build_gas calls made so far
    F,            \* flow vector [CH4, CO2, CO, H2, H2O, N2] in nmol/s
    V_reactor,    \* reactor volume as a fraction [num, den] of 1e-9 m^3
    segment,      \* loop index: number of segments completed (updated or skipped)
    lastOutcome,  \* what the last loop iteration did: "none", "updated", "skipped", "early_exit"
    Fprev,        \* flow vector before the last loop iteration
    skipped,      \* number of segments skipped by the except handler
    loopErr,      \* class of the last exception absorbed in the loop, "None" if none
    cause,        \* class of the exception first raised inside pfr_drm's try block
    raised,       \* class of the exception delivered to the caller, "None" if none
    result,       \* the returned dict, NoResult if none
    calls,        \* the frames of several calls of pfr_drm in one process, by call
                  \* number: each frame holds the locals above; <<>> when one call is
                  \* followed statement by statement in the variables above
    history,      \* db.drm_simulations: the set of stored history entries
    inserted,     \* number of entries ever inserted; entry n has id n and timestamp n
    reqs,         \* the requests in flight on the DRM history endpoints, by client
    removed,      \* ids deleted through DELETE /simulate/drm_history/{id}
    rateArgs,     \* the arguments of a direct call of power_law_rate
    rateOut       \* what that call returned or raised

vars == <<args, pc, kin, gasBuilt, F, V_reactor, segment, lastOutcome, Fprev,
          skipped, loopErr, cause, raised, result, calls,
          history, inserted, reqs, removed, rateArgs, rateOut>>

\* a direct call of power_law_rate
rateVars == <<rateArgs, rateOut>>

NoRateArgs == [none |-> TRUE]
NoRateOut  == [none |-> TRUE]

\* no direct call of power_law_rate is followed
NoRateCall ==
    /\ rateArgs = NoRateArgs
    /\ rateOut = NoRateOut

\* the state of the DRM history endpoints of the backend
serverVars == <<history, inserted, reqs, removed>>

\* the clients that send requests to the backend
Clients == {1, 2}

\* a client with no request in flight
IdleReq ==
    [pc |-> "idle", endpoint |-> "none", count |-> 0, oldest |-> <<>>,
     status |-> 0, body |-> <<>>]

\* the backend before any request: an empty collection
NoRequests ==
    /\ history = {}
    /\ inserted = 0
    /\ reqs = [c \in Clients |-> IdleReq]
    /\ removed = {}

-----------------------------------------------------------------------------
(* Bounds of the model *)

MaxRate == 2          \* largest inlet rate, in ml/min
MaxNseg == 3          \* largest segment count

-----------------------------------------------------------------------------
(* Species, stoichiometry *)

Species == {"CH4", "CO2", "CO", "H2", "H2O", "N2"}
idx == <<"CH4", "CO2", "CO", "H2", "H2O", "N2">>

\* mutant of nu_drm: the products are left out
nu_drm_no_products ==
    [sp \in Species |-> CASE sp = "CH4" -> -1 [] sp = "CO2" -> -1 [] OTHER -> 0]

nu_drm  == [sp \in Species |->
              CASE sp = "CH4" -> -1 [] sp = "CO2" -> -1 [] sp = "CO" -> 2
                [] sp = "H2" -> 2 [] OTHER -> 0]
\* mutant of nu_rwgs: N2 takes part in the reaction
nu_rwgs_with_N2 ==
    [sp \in Species |->
        CASE sp = "CO2" -> -1 [] sp = "CO" -> 1 [] sp = "H2" -> -1
          [] sp = "H2O" -> 1 [] sp = "N2" -> -1 [] OTHER -> 0]

nu_rwgs == [sp \in Species |->
              CASE sp = "CO2" -> -1 [] sp = "CO" -> 1 [] sp = "H2" -> -1
                [] sp = "H2O" -> 1 [] OTHER -> 0]

ZeroF == [sp \in Species |-> 0]

FSum(Fv) == Fv["CH4"] + Fv["CO2"] + Fv["CO"] + Fv["H2"] + Fv["H2O"] + Fv["N2"]

-----------------------------------------------------------------------------
(* Exception classes *)

ErrorClasses == {"PFRModelError", "KineticsError", "ThermodynamicsError",
                 "InputValidationError"}

\* isinstance(e, cls) for e of class c: every domain error derives from PFRModelError
IsInstance(c, cls) == c \in ErrorClasses /\ (c = cls \/ cls = "PFRModelError")

-----------------------------------------------------------------------------
(* Exact integer helpers *)

Max(a, b) == IF a >= b THEN a ELSE b

\* quotients saturate here, far above every flow and rate of a run
QuotCap == 2^28

\* one doubling step of QuotRem: from h = [q, r] for b \div 2 to [q, r] for b
QuotRemStep(h, a, b, c) ==
    IF h.q >= QuotCap \/ a \div c >= QuotCap THEN [q |-> QuotCap, r |-> 0]
    ELSE [q |-> 2 * h.q + (b % 2) * (a \div c) + ((2 * h.r + (b % 2) * (a % c)) \div c),
          r |-> (2 * h.r + (b % 2) * (a % c)) % c]

\* [q, r] with a*b = q*c + r and 0 <= r < c, without forming a*b  (a, b >= 0, c > 0);
\* the recursive value is bound once, so that it is computed once at each level
RECURSIVE QuotRem(_, _, _)
QuotRem(a, b, c) ==
    IF b <= 0 \/ a <= 0 THEN [q |-> 0, r |-> 0]
    ELSE CHOOSE x \in {QuotRemStep(h, a, b, c) : h \in {QuotRem(a, b \div 2, c)}} : TRUE

\* floor(a*b/c); the operands are bound once, so that each is computed once
MulDiv(a, b, c) ==
    CHOOSE q \in {QuotRem(x, y, z).q : x \in {a}, y \in {b}, z \in {c}} : TRUE

\* Op(v), with v computed once
Bind(v, Op(_)) == CHOOSE y \in {Op(x) : x \in {v}} : TRUE

-----------------------------------------------------------------------------
(* KineticsParams *)

NoKin    == "None"             \* kin=None
NoOrders == [None |-> 0]       \* orders_drm=None, orders_rwgs=None

A_drm_default  == 1000     \* 1.00e-3 mol/(m^3 s Pa^2) = 1000 mol/(m^3 s kPa^2)
E_drm_default  == 120      \* 1.20e5 J/mol
A_rwgs_default == 500      \* 5.00e-4 mol/(m^3 s Pa^2)
E_rwgs_default == 90       \* 9.00e4 J/mol

\* mutant of orders_drm_default: the DRM rate does not depend on CO2
orders_drm_without_CO2 == [sp \in {"CH4", "CO2"} |-> IF sp = "CH4" THEN 1 ELSE 0]

orders_drm_default  == [sp \in {"CH4", "CO2"} |-> 1]
orders_rwgs_default == [sp \in {"CO2", "H2"} |-> 1]

\* the dataclass fields as the generated __init__ stores them, before __post_init__
KineticsFields(A_d, E_d, o_d, A_r, E_r, o_r) ==
    [A_drm |-> A_d, E_drm |-> E_d, orders_drm |-> o_d,
     A_rwgs |-> A_r, E_rwgs |-> E_r, orders_rwgs |-> o_r]

\* _validate_params: TRUE iff it raises InputValidationError
ValidateParamsRaises(k) ==
    \/ k.A_drm <= 0 \/ k.A_rwgs <= 0
    \/ k.E_drm < 0 \/ k.E_rwgs < 0

\* __post_init__: None order maps are replaced by the defaults
PostInit(k) ==
    [k EXCEPT !.orders_drm  = IF @ = NoOrders THEN orders_drm_default ELSE @,
              !.orders_rwgs = IF @ = NoOrders THEN orders_rwgs_default ELSE @]

\* KineticsParams(): every field at its default
DefaultKinetics ==
    PostInit(KineticsFields(A_drm_default, E_drm_default, NoOrders,
                            A_rwgs_default, E_rwgs_default, NoOrders))

\* Kinetics a caller passes.  Slow: small pre-exponential factors; NegOrder: a
\* negative DRM order on CH4; HugeE: activation energies past the underflow floor.
\* Null: pre-exponential factors -> 0+.  TinyA stands for a positive factor (1e-30)
\* whose rate constant is positive and below the grid
ESuperHigh == 10000000
TinyA      == 1
KinSlow     == PostInit(KineticsFields(2, E_drm_default, NoOrders, 2, E_rwgs_default, NoOrders))
KinNull     == PostInit(KineticsFields(TinyA, E_drm_default, NoOrders,
                                       TinyA, E_rwgs_default, NoOrders))
KinNegOrder == PostInit(KineticsFields(A_drm_default, E_drm_default,
                                       [sp \in {"CH4", "CO2"} |-> IF sp = "CH4" THEN -1 ELSE 1],
                                       A_rwgs_default, E_rwgs_default, NoOrders))
KinHugeE    == PostInit(KineticsFields(A_drm_default, ESuperHigh, NoOrders,
                                       A_rwgs_default, ESuperHigh, NoOrders))

\* an object constructed with the defaults whose field was assigned afterwards
\* (kp = KineticsParams(); kp.A_drm = -1.0e-3): the dataclass is not frozen and
\* _validate_params runs in __post_init__ only
KinMutated == [DefaultKinetics EXCEPT !.A_drm = -A_drm_default]

\* the KineticsParams object a tag stands for
Kin(tag) ==
    CASE tag = "Slow"     -> KinSlow
      [] tag = "Mutated"  -> KinMutated
      [] tag = "NegOrder" -> KinNegOrder
      [] tag = "HugeE"    -> KinHugeE
      [] tag = "Null"     -> KinNull
      [] OTHER            -> DefaultKinetics

\* objects whose construction succeeded (_validate_params did not raise)
KinChoices ==
    {tag \in {"Slow", "NegOrder", "HugeE", "Null"} : ~ValidateParamsRaises(Kin(tag))}

-----------------------------------------------------------------------------
(* The arguments a caller can pass *)

AbsZeroC == -27315                       \* -273.15 C
TempsC   == {-30000, AbsZeroC, 82500}    \* -300 C, -273.15 C, 825 C
Pbars    == {0, 1}
\* TinyRate stands for a positive rate (below 1e-25 ml/min) whose molar flow is
\* positive and at most the guard value 1e-30 mol/s; on the grid that flow is 0
TinyRate == 1
Rates    == {-1000, 0, TinyRate} \cup {1000 * k : k \in 1..MaxRate}
N2Rates  == {-1000, 0, 1000}
\* NotNumber stands for an argument that is no number (GHSV_h_1=None): comparing it
\* with a number raises TypeError
NotNumber == -1
GHSVs    == {0, 10000, 1000000, NotNumber}
Nsegs    == 0..MaxNseg

\* a feed with a rate as small as TinyRate has no rate above it: the total flow of
\* such a feed is at most 1e-30 mol/s
TinyFeed(a) ==
    (a.fCH4 = TinyRate \/ a.fCO2 = TinyRate) =>
        a.fCH4 <= TinyRate /\ a.fCO2 <= TinyRate /\ a.fN2 <= 0

ArgSpace ==
    {a \in [T_C : TempsC, P_bar : Pbars, fCH4 : Rates, fCO2 : Rates, fN2 : N2Rates,
             GHSV : GHSVs, nseg : Nsegs, kin : {NoKin} \cup KinChoices] : TinyFeed(a)}

-----------------------------------------------------------------------------
(* validate_inputs *)

flow_rates(a) == [sp \in {"CH4", "CO2", "N2"} |->
                    CASE sp = "CH4" -> a.fCH4 [] sp = "CO2" -> a.fCO2 [] OTHER -> a.fN2]

\* mutant of ValidateInputsRaises: the GHSV check is missing
ValidateInputsNoGHSV(T_C, P_bar, rates, GHSV_h_1) ==
    \/ T_C < AbsZeroC
    \/ P_bar <= 0
    \/ \E sp \in DOMAIN rates : rates[sp] < 0
    \/ rates["CH4"] + rates["CO2"] + rates["N2"] <= 0

\* TRUE iff validate_inputs raises InputValidationError
ValidateInputsRaises(T_C, P_bar, rates, GHSV_h_1) ==
    \/ T_C < AbsZeroC
    \/ P_bar <= 0
    \/ \E sp \in DOMAIN rates : rates[sp] < 0
    \/ rates["CH4"] + rates["CO2"] + rates["N2"] <= 0
    \/ GHSV_h_1 # NotNumber /\ GHSV_h_1 <= 0

\* TRUE iff validate_inputs raises TypeError: the checks before the GHSV check pass
\* and GHSV_h_1 <= 0 compares a value that is no number
ValidateInputsTypeError(T_C, P_bar, rates, GHSV_h_1) ==
    /\ GHSV_h_1 = NotNumber
    /\ ~(T_C < AbsZeroC)
    /\ ~(P_bar <= 0)
    /\ ~(\E sp \in DOMAIN rates : rates[sp] < 0)
    /\ ~(rates["CH4"] + rates["CO2"] + rates["N2"] <= 0)

-----------------------------------------------------------------------------
(* Gas state: build_gas, density, unit conversion *)

gas_constant == 8314        \* ct.gas_constant, J/(kmol K)
one_atm      == 101325      \* ct.one_atm, Pa

TK(a)  == a.T_C - AbsZeroC          \* T = T_C + 273.15, centi-K
PPa(a) == a.P_bar * 100000          \* P = P_bar * 1e5, Pa

\* R*T in J/kmol for T in centi-K
RT(T) == (gas_constant * T) \div 100

\* TRUE iff build_gas raises ThermodynamicsError: a non-positive total of the
\* supplied fractions, or a state the gas library rejects (T <= 0 or P <= 0)
BuildGasRaises(T, P, Xtotal) == Xtotal <= 0 \/ T <= 0 \/ P <= 0

build_gas(T, P) == [T |-> T, P |-> P]

\* gas.density_mole * 1e3 of an ideal gas, in mmol/m^3
density_mol(gas) == MulDiv(gas.P, 1000000, RT(gas.T))

\* mlpm_to_molps: the class it raises, "None" if it returns
MlpmRaises(ml_per_min, gas) ==
    IF ml_per_min < 0 THEN "InputValidationError"
    ELSE IF density_mol(gas) <= 0 THEN "ThermodynamicsError"
    ELSE "None"

\* mlpm_to_molps: vdot * c in nmol/s  (ml_per_min in 0.001 ml/min)
mlpm_to_molps(ml_per_min, gas) == MulDiv(ml_per_min, density_mol(gas), 60000)

-----------------------------------------------------------------------------
(* Kinetics evaluator: power_law_rate *)

\* floor(1000 * exp(-x)) for x given in thousandths, x >= 0
RECURSIVE ExpMilli(_)
ExpMilli(xm) ==
    IF xm >= 7000 THEN 0
    ELSE IF xm >= 1000 THEN (368 * ExpMilli(xm - 1000)) \div 1000
    ELSE 1000 - xm + (xm * xm) \div 2000 - (xm * xm * xm) \div 6000000

\* mutant of RateConstant: the factor A is left out of k
RateConstantNoA(A, E, gas) ==
    IF E * 10 > 7 * RT(gas.T) THEN 0
    ELSE 1000 * ExpMilli(MulDiv(E, 1000000, RT(gas.T)))

\* the rate constant k in 0.001 units: 0 below the underflow floor exp_arg < -700,
\* else A * exp(-E/(R*T))   (E in kJ/mol, R*T in J/kmol)
RateConstant(A, E, gas) ==
    IF E * 10 > 7 * RT(gas.T) THEN 0
    ELSE IF A = TinyA THEN 0
    ELSE A * ExpMilli(MulDiv(E, 1000000, RT(gas.T)))

\* partial pressures p_i = X_i * P in kPa; a positive pressure stays positive
PartialP(Fv, P) ==
    [sp \in Species |->
        IF Fv[sp] <= 0 THEN 0 ELSE Max(1, MulDiv(Fv[sp], P \div 1000, FSum(Fv)))]

\* p_i.get(sp, 0.0) clamped at 0
PVal(p_i, sp) == IF sp \in DOMAIN p_i THEN Max(p_i[sp], 0) ELSE 0

RECURSIVE Pow(_, _)
Pow(b, n) == IF n <= 0 THEN 1 ELSE b * Pow(b, n - 1)

\* the product of p_val ** |alpha| over the species of S whose order has the given sign
RECURSIVE ProdP(_, _, _, _)
ProdP(orders, p_i, S, sign) ==
    IF S = {} THEN 1
    ELSE LET sp == CHOOSE x \in S : TRUE
             a  == orders[sp]
         IN  (IF a * sign > 0 THEN Pow(PVal(p_i, sp), a * sign) ELSE 1)
             * ProdP(orders, p_i, S \ {sp}, sign)

\* float("inf") as pre-exponential factor: it passes "A <= 0"
InfA == 2^30

\* exp_arg < -700
BelowFloor(E, gas) == E * 10 > 7 * RT(gas.T)

\* math.exp(exp_arg) raises OverflowError: exp_arg above 709.78
ExpOverflows(E, gas) == (-E) * 100 > 71 * RT(gas.T)

\* mutant of UnderflowPolicy: an exponent below the floor is an error
UnderflowRaises == [err |-> "KineticsError", k |-> 0, finite |-> TRUE]

\* exp_arg < -700: a warning is logged and k = 0.0
UnderflowPolicy == [err |-> "None", k |-> 0, finite |-> TRUE]

\* lines 167-173: [err, k, finite]; err is the class raised by math.exp, finite is
\* FALSE for a rate constant that is inf
KOutcome(A, E, gas) ==
    IF BelowFloor(E, gas) THEN UnderflowPolicy
    ELSE IF ExpOverflows(E, gas) THEN [err |-> "OverflowError", k |-> 0, finite |-> TRUE]
    ELSE IF A = InfA THEN [err |-> "None", k |-> 0, finite |-> FALSE]
    ELSE [err |-> "None", k |-> RateConstant(A, E, gas), finite |-> TRUE]

\* mutant of NegOrderAtZero: the order map is looked at only for a rate constant
\* that is not zero
NegOrderAtZeroIfRate(k, orders, p_i) ==
    k # 0 /\ \E sp \in DOMAIN orders : orders[sp] < 0 /\ PVal(p_i, sp) = 0

\* "if p_val == 0 and alpha < 0" for some species of the order map; the rate
\* constant k plays no part
NegOrderAtZero(k, orders, p_i) ==
    \E sp \in DOMAIN orders : orders[sp] < 0 /\ PVal(p_i, sp) = 0

\* mutant of RateExcept: no except clause
RateExceptNone(c) == c

\* except (OverflowError, ZeroDivisionError) as e: raise KineticsError(...)
RateExcept(c) ==
    IF c \in {"OverflowError", "ZeroDivisionError"} THEN "KineticsError" ELSE c

\* power_law_rate, from the rate constant outcome ko on
RateFrom(ko, orders, p_i) ==
    IF ko.err # "None" THEN [err |-> RateExcept(ko.err), rate |-> 0]
    ELSE IF NegOrderAtZero(ko.k, orders, p_i) THEN [err |-> "KineticsError", rate |-> 0]
    ELSE IF ~ko.finite THEN [err |-> "KineticsError", rate |-> 0]
    ELSE [err |-> "None",
          rate |-> IF ko.k <= 0 THEN 0
                   ELSE MulDiv(ko.k, ProdP(orders, p_i, DOMAIN orders, 1),
                               ProdP(orders, p_i, DOMAIN orders, -1) * 1000)]

\* power_law_rate: [err, rate]; err is the class raised, "None" if it returns.
\* rate = max(k * prod_p, 0) in mol/(m^3 s)
power_law_rate(A, E, orders, gas, p_i) ==
    IF gas.T <= 0 THEN [err |-> "KineticsError", rate |-> 0]
    ELSE Bind(KOutcome(A, E, gas), LAMBDA ko : RateFrom(ko, orders, p_i))

-----------------------------------------------------------------------------
(* Equilibrium evaluator and net-rate limiter *)

rxn_drm  == "drm"       \* (CO, 2), (H2, 2), (CH4, -1), (CO2, -1)
rxn_rwgs == "rwgs"      \* (CO, 1), (H2O, 1), (CO2, -1), (H2, -1)

Nu(rxn) == IF rxn = rxn_drm THEN nu_drm ELSE nu_rwgs

\* dnu, the sum of the stoichiometric coefficients of the reaction
Dnu(rxn) == LET n == Nu(rxn)
            IN  n["CH4"] + n["CO2"] + n["CO"] + n["H2"] + n["H2O"] + n["N2"]

\* exp(-dG0/(R*T)) from the standard enthalpies and entropies of the mechanism,
\* as a fraction [num, den]: about 300 (DRM) and 1.02 (RWGS) near 1100 K, and
\* below the grid for DRM in a cold gas
StdEquilibrium(rxn, T) ==
    IF rxn = rxn_drm
    THEN [num |-> IF T >= 100000 THEN 300 ELSE 1, den |-> 1]
    ELSE [num |-> 102, den |-> 100]

\* equilibrium_constant: Kp = exp(-dG0/(R*T) - dnu*ln(P0/P)), a fraction, > 0
equilibrium_constant(gas, rxn) ==
    LET k0 == StdEquilibrium(rxn, gas.T)
    IN  IF Dnu(rxn) = 2
        THEN [num |-> Max(1, MulDiv(MulDiv(k0.num, gas.P, one_atm), gas.P, one_atm)),
              den |-> k0.den]
        ELSE k0

\* Qp(nu_vec) = PROD max(p_i, 1e-30) ** nu_i: the pressures that are exactly 0
\* contribute (1e-30)**nu_i, counted in tiny (their net exponent); the others give
\* the fraction num/den in kPa
RECURSIVE QpPart(_, _, _, _)
QpPart(nu_vec, p_i, S, sign) ==
    IF S = {} THEN 1
    ELSE LET sp == CHOOSE x \in S : TRUE
         IN  (IF nu_vec[sp] * sign > 0 /\ p_i[sp] > 0
              THEN Pow(p_i[sp], nu_vec[sp] * sign) ELSE 1)
             * QpPart(nu_vec, p_i, S \ {sp}, sign)

RECURSIVE QpTiny(_, _, _)
QpTiny(nu_vec, p_i, S) ==
    IF S = {} THEN 0
    ELSE LET sp == CHOOSE x \in S : TRUE
         IN  (IF p_i[sp] <= 0 THEN nu_vec[sp] ELSE 0) + QpTiny(nu_vec, p_i, S \ {sp})

Qp(nu_vec, p_i) ==
    [tiny |-> QpTiny(nu_vec, p_i, Species),
     num  |-> QpPart(nu_vec, p_i, Species, 1),
     den  |-> QpPart(nu_vec, p_i, Species, -1)]

\* a * b, saturating at 2^30
IntCap == Pow(2, 30)
SatMul(a, b) == IF a = 0 \/ b = 0 THEN 0
                ELSE IF a > IntCap \div b THEN IntCap ELSE a * b

\* floor(1000 * tanh(x)) at x = 0, 1/4, 2/4, ..., 15/4
TanhTable == <<0, 244, 462, 635, 761, 848, 905, 941, 964, 978, 986, 991, 995, 997, 998, 998>>

\* floor(1000 * tanh(q/4)): 999 from 4 on, 1000 once tanh rounds to 1.0 (x >= 19)
TanhMilli(q) == IF q >= 76 THEN 1000 ELSE IF q >= 16 THEN 999 ELSE TanhTable[q + 1]

\* np.tanh(Qp(nu) / max(Kp, 1e-300)) per mille; Qp is in Pa**dnu, 1000**dnu kPa**dnu
TanhRatio(qp, Kp, dnu) ==
    IF qp.tiny > 0 THEN 0
    ELSE IF qp.tiny < 0 THEN 1000
    ELSE LET n == SatMul(SatMul(4 * qp.num, Pow(1000, dnu)), Kp.den)
         IN  TanhMilli(n \div (qp.den * Kp.num))

\* mutant of NetRate: the damping term with the wrong sign
NetRateSignError(r_f, tanhm) == r_f + MulDiv(r_f, tanhm, 1000)

\* r_net = r_f * (1 - tanh(ratio))
NetRate(r_f, tanhm) == MulDiv(r_f, 1000 - tanhm, 1000)

-----------------------------------------------------------------------------
(* pfr_drm: initialisation *)

NoResult == [none |-> TRUE]
NoVolume == [num |-> 0, den |-> 1]

\* a positive inlet rate gives a positive molar flow, possibly below the flow grid,
\* so the fractions X0 = F / (sum + 1e-30) of the second build_gas have a positive total
InletPositive(a) == a.fCH4 > 0 \/ a.fCO2 > 0 \/ a.fN2 > 0

\* F after the three conversions; N2 is converted only if its rate is > 0
InletFlows(a, gas) ==
    [sp \in Species |->
        CASE sp = "CH4" -> mlpm_to_molps(a.fCH4, gas)
          [] sp = "CO2" -> mlpm_to_molps(a.fCO2, gas)
          [] sp = "N2"  -> IF a.fN2 > 0 THEN mlpm_to_molps(a.fN2, gas) ELSE 0
          [] OTHER      -> 0]

\* Vdot_in = F.sum() * (ct.gas_constant * T / P)
Vdot_in(Fv, T, P) == MulDiv(FSum(Fv), RT(T), P)

\* V_reactor = max(Vdot_in / GHSV_h_1, 1e-15)
ReactorVolume(vdot, GHSV_h_1) ==
    IF vdot < (GHSV_h_1 + 999999) \div 1000000
    THEN [num |-> 1, den |-> 1000000]
    ELSE [num |-> vdot, den |-> GHSV_h_1]

\* the statements from the first build_gas to dV: [err, built, F, V];
\* err is the class of the exception raised, "None" if none
InletOutcome(a) ==
    LET T   == TK(a)
        P   == PPa(a)
        gas == build_gas(T, P)
        e1  == MlpmRaises(a.fCH4, gas)
        e2  == MlpmRaises(a.fCO2, gas)
        e3  == IF a.fN2 > 0 THEN MlpmRaises(a.fN2, gas) ELSE "None"
        F0  == InletFlows(a, gas)
        bad(e, n) == [err |-> e, built |-> n, F |-> ZeroF, V |-> NoVolume]
    IN  IF BuildGasRaises(T, P, 1) THEN bad("ThermodynamicsError", 1)
        ELSE IF e1 # "None" THEN bad(e1, 1)
        ELSE IF e2 # "None" THEN bad(e2, 1)
        ELSE IF e3 # "None" THEN bad(e3, 1)
        ELSE IF BuildGasRaises(T, P, IF InletPositive(a) THEN 1 ELSE 0)
             THEN bad("ThermodynamicsError", 2)
        ELSE [err |-> "None", built |-> 2, F |-> F0,
              V |-> ReactorVolume(Vdot_in(F0, T, P), a.GHSV)]

-----------------------------------------------------------------------------
(* pfr_drm: one iteration of the segment loop *)

\* mutant of Clip: the clamp is left out
ClipNothing(Fv) == Fv

\* np.clip(F, 0.0, None)
Clip(Fv) == [sp \in Species |-> Max(Fv[sp], 0)]

\* r_net * dV, with dV = V_reactor / nseg
Extent(r_net, V, nseg) == MulDiv(r_net, V.num, V.den * nseg)

\* mutant of Euler: the RWGS term enters with the wrong sign
EulerRwgsBackwards(Fv, xi_drm, xi_rwgs) ==
    [sp \in Species |-> Fv[sp] + nu_drm[sp] * xi_drm - nu_rwgs[sp] * xi_rwgs]

\* mutant of Euler: the step is computed and dropped
EulerNoStep(Fv, xi_drm, xi_rwgs) == Fv

\* F + R * dV with R = nu_drm * r_drm_net + nu_rwgs * r_rwgs_net
Euler(Fv, xi_drm, xi_rwgs) ==
    [sp \in Species |-> Fv[sp] + nu_drm[sp] * xi_drm + nu_rwgs[sp] * xi_rwgs]

\* the net rates at partial pressures p_i:
\* [err, r_drm_f, r_rwgs_f, r_drm_net, r_rwgs_net]
SegmentRatesAt(Fv, k, T, P, p_i) ==
    LET gas  == build_gas(T, P)
        rd   == power_law_rate(k.A_drm, k.E_drm, k.orders_drm, gas, p_i)
        rr   == power_law_rate(k.A_rwgs, k.E_rwgs, k.orders_rwgs, gas, p_i)
        td   == TanhRatio(Qp(nu_drm, p_i), equilibrium_constant(gas, rxn_drm), Dnu(rxn_drm))
        tr   == TanhRatio(Qp(nu_rwgs, p_i), equilibrium_constant(gas, rxn_rwgs), Dnu(rxn_rwgs))
        bad(e) == [err |-> e, r_drm_f |-> 0, r_rwgs_f |-> 0, r_drm_net |-> 0, r_rwgs_net |-> 0]
    IN  IF BuildGasRaises(T, P, FSum(Fv)) THEN bad("ThermodynamicsError")
        ELSE IF rd.err # "None" THEN bad(rd.err)
        ELSE IF rr.err # "None" THEN bad(rr.err)
        ELSE [err |-> "None", r_drm_f |-> rd.rate, r_rwgs_f |-> rr.rate,
              r_drm_net |-> NetRate(rd.rate, td), r_rwgs_net |-> NetRate(rr.rate, tr)]

\* the net rates of one segment, from the partial pressures of flow vector Fv
SegmentRates(Fv, k, T, P) ==
    Bind(PartialP(Fv, P), LAMBDA p_i : SegmentRatesAt(Fv, k, T, P, p_i))

\* mutant of SkipF: the except clause lifts flows of zero to the flow grid
SkipLiftsZeros(Fv) == [sp \in Species |-> Max(Fv[sp], 1)]

\* mutant of SkipF: the except clause resets the flow vector
SkipResets(Fv) == ZeroF

\* mutant of LoopExcept: the except clause re-raises
LoopExceptReraises(c) == "raise"

\* what the except clause of the loop leaves in F: the values before the segment
SkipF(Fv) == Fv

\* what the except clause of the loop does with an exception of class c
LoopExcept(c) == "continue"

\* mutant of NextSegment: the loop runs the same index again
SameSegment(i) == i

\* for segment in range(nseg): the index after index i
NextSegment(i) == i + 1

\* the body of the loop on flow vector Fv: [kind, F, err]
SegmentBody(Fv, k, T, P, V, nseg) ==
    IF FSum(Fv) <= 0 THEN [kind |-> "early_exit", F |-> Fv, err |-> "None"]
    ELSE Bind(SegmentRates(Fv, k, T, P),
              LAMBDA r :
                 IF r.err # "None"
                 THEN [kind |-> "skipped", F |-> SkipF(Fv), err |-> r.err]
                 ELSE [kind |-> "updated", err |-> "None",
                       F |-> Clip(Euler(Fv, Extent(r.r_drm_net, V, nseg),
                                            Extent(r.r_rwgs_net, V, nseg)))])

-----------------------------------------------------------------------------
(* pfr_drm: final results *)

ReturnedSpecies == {"H2", "CH4", "CO", "CO2", "H2O"}

\* mutant of Result: the fractions are taken on the feed species' flow only
ResultFeedBasis(Fv) ==
    [y |-> [sp \in ReturnedSpecies |-> Fv[sp]], Ftot |-> Fv["CH4"] + Fv["CO2"] + Fv["N2"]]

\* the returned dict: y_<sp> = F[sp] / Ft for the five reported species, carried as
\* the numerators y[sp] over the common denominator Ftot = F.sum() + 1e-30
Result(Fv) == [y |-> [sp \in ReturnedSpecies |-> Fv[sp]], Ftot |-> FSum(Fv)]

\* mutant of Reraise: the outer except clause re-raises what it caught
ReraiseSame(c) == c

\* mutant of Reraise: the outer except clause logs and does not raise
ReraiseSwallowed(c) == "None"

\* raise PFRModelError(...) in the outer except: the class the caller receives
Reraise(c) == "PFRModelError"

-----------------------------------------------------------------------------
(* The quick-test case of the module *)

\* T_C = 825.0, P_bar = 1.0, CH4 700 ml/min, CO2 300 ml/min, no N2, GHSV 10000,
\* nseg = 400, kinetics with the default values
Scenario ==
    [T_C |-> 82500, P_bar |-> 1, fCH4 |-> 700000, fCO2 |-> 300000, fN2 |-> 0,
     GHSV |-> 10000, nseg |-> 400, kin |-> NoKin]

\* the case, and the case with one argument changed: a temperature below and at
\* absolute zero, a GHSV that is no number, no segments, two segments with a
\* kinetics object changed after its construction, slow kinetics at a high
\* GHSV (a conversion that builds up over the segments), a negative CH4 order
\* with no CH4 in the feed, a feed below the flow guard
ScenarioArgs ==
    {Scenario,
     [Scenario EXCEPT !.T_C = -30000],
     [Scenario EXCEPT !.T_C = AbsZeroC],
     [Scenario EXCEPT !.GHSV = NotNumber],
     [Scenario EXCEPT !.nseg = 0],
     [Scenario EXCEPT !.kin = "Mutated", !.nseg = 2],
     [Scenario EXCEPT !.kin = "Slow", !.GHSV = 1000000],
     [Scenario EXCEPT !.kin = "NegOrder", !.fCH4 = 0],
     [Scenario EXCEPT !.fCH4 = TinyRate, !.fCO2 = 0]}

-----------------------------------------------------------------------------
(* The call as a state machine *)

Init ==
    /\ args \in ArgSpace \cup ScenarioArgs
    /\ pc = "validate"
    /\ kin = args.kin
    /\ gasBuilt = 0
    /\ F = ZeroF
    /\ V_reactor = NoVolume
    /\ segment = 0
    /\ lastOutcome = "none"
    /\ Fprev = ZeroF
    /\ skipped = 0
    /\ loopErr = "None"
    /\ cause = "None"
    /\ raised = "None"
    /\ result = NoResult
    /\ calls = <<>>
    /\ NoRequests
    /\ NoRateCall

\* an exception of class c leaves the try block for the outer except clause
Raise(c) ==
    /\ pc' = "except"
    /\ cause' = c

\* validate_inputs raises
ValidateRaise ==
    /\ pc = "validate"
    /\ ValidateInputsRaises(args.T_C, args.P_bar, flow_rates(args), args.GHSV)
    /\ Raise("InputValidationError")
    /\ UNCHANGED <<args, kin, gasBuilt, F, V_reactor, segment, lastOutcome, Fprev,
                   skipped, loopErr, raised, result>>
    /\ UNCHANGED <<calls, serverVars, rateVars>>

\* validate_inputs raises an exception that is no domain error
ValidateTypeError ==
    /\ pc = "validate"
    /\ ValidateInputsTypeError(args.T_C, args.P_bar, flow_rates(args), args.GHSV)
    /\ Raise("TypeError")
    /\ UNCHANGED <<args, kin, gasBuilt, F, V_reactor, segment, lastOutcome, Fprev,
                   skipped, loopErr, raised, result>>
    /\ UNCHANGED <<calls, serverVars, rateVars>>

\* validate_inputs returns, kin is defaulted, nseg <= 0 raises
NsegRaise ==
    /\ pc = "validate"
    /\ ~ValidateInputsRaises(args.T_C, args.P_bar, flow_rates(args), args.GHSV)
    /\ ~ValidateInputsTypeError(args.T_C, args.P_bar, flow_rates(args), args.GHSV)
    /\ args.nseg <= 0
    /\ kin' = IF kin = NoKin THEN "Default" ELSE kin
    /\ Raise("InputValidationError")
    /\ UNCHANGED <<args, gasBuilt, F, V_reactor, segment, lastOutcome, Fprev,
                   skipped, loopErr, raised, result>>
    /\ UNCHANGED <<calls, serverVars, rateVars>>

\* validate_inputs returns, kin is defaulted, nseg > 0
ValidateOk ==
    /\ pc = "validate"
    /\ ~ValidateInputsRaises(args.T_C, args.P_bar, flow_rates(args), args.GHSV)
    /\ ~ValidateInputsTypeError(args.T_C, args.P_bar, flow_rates(args), args.GHSV)
    /\ args.nseg > 0
    /\ kin' = IF kin = NoKin THEN "Default" ELSE kin
    /\ pc' = "inlet"
    /\ UNCHANGED <<args, gasBuilt, F, V_reactor, segment, lastOutcome, Fprev,
                   skipped, loopErr, cause, raised, result>>
    /\ UNCHANGED <<calls, serverVars, rateVars>>

\* building the inlet gas state or converting the inlet rates raises
InletRaise ==
    /\ pc = "inlet"
    /\ LET o == InletOutcome(args)
       IN  /\ o.err # "None"
           /\ gasBuilt' = gasBuilt + o.built
           /\ Raise(o.err)
    /\ UNCHANGED <<args, kin, F, V_reactor, segment, lastOutcome, Fprev,
                   skipped, loopErr, raised, result>>
    /\ UNCHANGED <<calls, serverVars, rateVars>>

\* inlet flow vector and reactor volume are set; the loop starts
InletOk ==
    /\ pc = "inlet"
    /\ LET o == InletOutcome(args)
       IN  /\ o.err = "None"
           /\ gasBuilt' = gasBuilt + o.built
           /\ F' = o.F
           /\ V_reactor' = o.V
    /\ segment' = 0
    /\ pc' = "segment"
    /\ UNCHANGED <<args, kin, lastOutcome, Fprev, skipped, loopErr, cause, raised, result>>
    /\ UNCHANGED <<calls, serverVars, rateVars>>

\* the outcome of the loop body in the current state
Body == SegmentBody(F, Kin(kin), TK(args), PPa(args), V_reactor, args.nseg)

\* the loop body runs to the end of the try: F is updated and clamped
SegmentUpdate ==
    /\ pc = "segment"
    /\ segment < args.nseg
    /\ Body.kind = "updated"
    /\ F' = Body.F
    /\ Fprev' = F
    /\ gasBuilt' = gasBuilt + 1
    /\ segment' = NextSegment(segment)
    /\ lastOutcome' = "updated"
    /\ pc' = IF NextSegment(segment) < args.nseg THEN "segment" ELSE "finish"
    /\ UNCHANGED <<args, kin, V_reactor, skipped, loopErr, cause, raised, result>>
    /\ UNCHANGED <<calls, serverVars, rateVars>>

\* the loop body raises: the except clause logs and continues
SegmentSkip ==
    /\ pc = "segment"
    /\ segment < args.nseg
    /\ Body.kind = "skipped"
    /\ gasBuilt' = gasBuilt + 1
    /\ loopErr' = Body.err
    /\ Fprev' = F
    /\ IF LoopExcept(Body.err) = "continue"
       THEN /\ F' = Body.F
            /\ segment' = NextSegment(segment)
            /\ lastOutcome' = "skipped"
            /\ skipped' = skipped + 1
            /\ pc' = IF NextSegment(segment) < args.nseg THEN "segment" ELSE "finish"
            /\ UNCHANGED cause
       ELSE /\ Raise(Body.err)
            /\ UNCHANGED <<F, segment, lastOutcome, skipped>>
    /\ UNCHANGED <<args, kin, V_reactor, raised, result>>
    /\ UNCHANGED <<calls, serverVars, rateVars>>

\* mutant of Break: the segment is passed over and the loop goes on
BreakContinues(i, nseg) ==
    [pc |-> IF i + 1 < nseg THEN "segment" ELSE "finish", segment |-> i + 1]

\* break at loop index i: the loop is left for the statements after it
Break(i, nseg) == [pc |-> "finish", segment |-> i]

\* total flow <= 1e-30: break
SegmentBreak ==
    /\ pc = "segment"
    /\ segment < args.nseg
    /\ Body.kind = "early_exit"
    /\ Fprev' = F
    /\ lastOutcome' = "early_exit"
    /\ pc' = Break(segment, args.nseg).pc
    /\ segment' = Break(segment, args.nseg).segment
    /\ UNCHANGED <<args, kin, gasBuilt, F, V_reactor, skipped, loopErr,
                   cause, raised, result>>
    /\ UNCHANGED <<calls, serverVars, rateVars>>

\* final results: the mole fractions are computed and the dict is returned
Finish ==
    /\ pc = "finish"
    /\ result' = Result(F)
    /\ pc' = "returned"
    /\ UNCHANGED <<args, kin, gasBuilt, F, V_reactor, segment, lastOutcome, Fprev,
                   skipped, loopErr, cause, raised>>
    /\ UNCHANGED <<calls, serverVars, rateVars>>

\* the outer except clause: log, raise PFRModelError to the caller
OuterExcept ==
    /\ pc = "except"
    /\ raised' = Reraise(cause)
    /\ pc' = "raised"
    /\ UNCHANGED <<args, kin, gasBuilt, F, V_reactor, segment, lastOutcome, Fprev,
                   skipped, loopErr, cause, result>>
    /\ UNCHANGED <<calls, serverVars, rateVars>>

Next ==
    \/ ValidateRaise
    \/ ValidateTypeError
    \/ NsegRaise
    \/ ValidateOk
    \/ InletRaise
    \/ InletOk
    \/ SegmentUpdate
    \/ SegmentSkip
    \/ SegmentBreak
    \/ Finish
    \/ OuterExcept

Spec == Init /\ [][Next]_vars

\* the interpreter goes on to the next statement of a call that has not ended
FairSpec == Spec /\ WF_vars(Next)

\* the states of the run: INITIALIZING, SEGMENT_STEPPING, COMPLETED, FAILED
Phase ==
    CASE pc \in {"validate", "inlet"}  -> "INITIALIZING"
      [] pc \in {"segment", "finish"}  -> "SEGMENT_STEPPING"
      [] pc = "returned"               -> "COMPLETED"
      [] OTHER                         -> "FAILED"

-----------------------------------------------------------------------------
(* The quick-test case alone *)

InitScenario ==
    /\ args \in ScenarioArgs
    /\ pc = "validate"
    /\ kin = args.kin
    /\ gasBuilt = 0
    /\ F = ZeroF
    /\ V_reactor = NoVolume
    /\ segment = 0
    /\ lastOutcome = "none"
    /\ Fprev = ZeroF
    /\ skipped = 0
    /\ loopErr = "None"
    /\ cause = "None"
    /\ raised = "None"
    /\ result = NoResult
    /\ calls = <<>>
    /\ NoRequests
    /\ NoRateCall

SpecScenario == InitScenario /\ [][Next]_vars

-----------------------------------------------------------------------------
(* Several calls in one process *)

\* the frame of a call: its arguments and locals at entry
CallInit(a) ==
    [args |-> a, pc |-> "validate", kin |-> a.kin, gasBuilt |-> 0, F |-> ZeroF,
     V_reactor |-> NoVolume, segment |-> 0, lastOutcome |-> "none", Fprev |-> ZeroF,
     skipped |-> 0, loopErr |-> "None", cause |-> "None", raised |-> "None",
     result |-> NoResult]

\* the frame of the call followed in the variables args .. result
CurrentCall ==
    [args |-> args, pc |-> pc, kin |-> kin, gasBuilt |-> gasBuilt, F |-> F,
     V_reactor |-> V_reactor, segment |-> segment, lastOutcome |-> lastOutcome,
     Fprev |-> Fprev, skipped |-> skipped, loopErr |-> loopErr, cause |-> cause,
     raised |-> raised, result |-> result]

\* the call has returned or raised
Terminal(c) == c.pc \in {"returned", "raised"}

\* the statements from validate_inputs to the nseg check, on frame c
StepValidate(c) ==
    LET k == IF c.kin = NoKin THEN "Default" ELSE c.kin
    IN  IF ValidateInputsRaises(c.args.T_C, c.args.P_bar, flow_rates(c.args), c.args.GHSV)
        THEN [c EXCEPT !.pc = "except", !.cause = "InputValidationError"]
        ELSE IF ValidateInputsTypeError(c.args.T_C, c.args.P_bar, flow_rates(c.args),
                                        c.args.GHSV)
        THEN [c EXCEPT !.pc = "except", !.cause = "TypeError"]
        ELSE IF c.args.nseg <= 0
        THEN [c EXCEPT !.pc = "except", !.cause = "InputValidationError", !.kin = k]
        ELSE [c EXCEPT !.pc = "inlet", !.kin = k]

\* the statements from the first build_gas to the start of the loop, on frame c
StepInlet(c) ==
    LET o == InletOutcome(c.args)
    IN  IF o.err # "None"
        THEN [c EXCEPT !.pc = "except", !.cause = o.err, !.gasBuilt = @ + o.built]
        ELSE [c EXCEPT !.pc = "segment", !.gasBuilt = @ + o.built, !.F = o.F,
                       !.V_reactor = o.V, !.segment = 0]

\* one iteration of the loop, on frame c
StepSegment(c) ==
    LET b    == SegmentBody(c.F, Kin(c.kin), TK(c.args), PPa(c.args), c.V_reactor,
                            c.args.nseg)
        next == IF NextSegment(c.segment) < c.args.nseg THEN "segment" ELSE "finish"
    IN  CASE b.kind = "early_exit" ->
               [c EXCEPT !.pc = Break(c.segment, c.args.nseg).pc,
                         !.segment = Break(c.segment, c.args.nseg).segment,
                         !.Fprev = c.F, !.lastOutcome = "early_exit"]
          [] b.kind = "updated" ->
               [c EXCEPT !.pc = next, !.F = b.F, !.Fprev = c.F, !.gasBuilt = @ + 1,
                         !.segment = NextSegment(@), !.lastOutcome = "updated"]
          [] OTHER ->
               IF LoopExcept(b.err) = "continue"
               THEN [c EXCEPT !.pc = next, !.F = b.F, !.Fprev = c.F, !.gasBuilt = @ + 1,
                              !.segment = NextSegment(@), !.lastOutcome = "skipped",
                              !.skipped = @ + 1, !.loopErr = b.err]
               ELSE [c EXCEPT !.pc = "except", !.cause = b.err, !.Fprev = c.F,
                              !.gasBuilt = @ + 1, !.loopErr = b.err]

\* the next statement of pfr_drm on frame c: the frame it leaves
CallStep(c) ==
    CASE c.pc = "validate" -> StepValidate(c)
      [] c.pc = "inlet"    -> StepInlet(c)
      [] c.pc = "segment"  -> StepSegment(c)
      [] c.pc = "finish"   -> [c EXCEPT !.pc = "returned", !.result = Result(c.F)]
      [] c.pc = "except"   -> [c EXCEPT !.pc = "raised", !.raised = Reraise(c.cause)]
      [] OTHER             -> c

\* the frame of a call run on its own from frame c to its end, in at most n steps
RECURSIVE RunToEnd(_, _)
RunToEnd(c, n) ==
    IF Terminal(c) \/ n <= 0 THEN c ELSE RunToEnd(CallStep(c), n - 1)

\* what a call with arguments a gives when nothing else runs: [result, raised]
RunAlone(a) ==
    LET c == RunToEnd(CallInit(a), a.nseg + 4)
    IN  [result |-> c.result, raised |-> c.raised, done |-> Terminal(c)]

\* the calls of one process
Runs == {1, 2, 3}

\* the arguments of those calls: default, slow and negative-order kinetics, a hot
\* gas and a gas at absolute zero
RunArgs ==
    {a \in ArgSpace :
        /\ a.T_C \in {AbsZeroC, 82500} /\ a.P_bar = 1
        /\ a.fCH4 = 1000 /\ a.fCO2 = 1000 /\ a.fN2 = 0
        /\ a.GHSV = 1000000 /\ a.nseg = 2
        /\ a.kin \in {NoKin, "Slow", "NegOrder"}}

\* mutant of LocalsOf: the flow vector F is one module-level array, that of call 1
LocalsSharedFlow(cs, r) == [cs[r] EXCEPT !.F = cs[1].F]

\* mutant of LocalsOf: kin is one module-level name, bound by call 1
LocalsSharedKin(cs, r) == [cs[r] EXCEPT !.kin = cs[1].kin]

\* the names a statement of call r reads: T, P, F, gas, kin, ... are locals of
\* pfr_drm, so each call has its own
LocalsOf(cs, r) == cs[r]

InitRuns ==
    /\ calls \in [Runs -> {CallInit(a) : a \in RunArgs}]
    /\ args = CHOOSE a \in RunArgs : TRUE
    /\ pc = "idle"
    /\ kin = NoKin
    /\ gasBuilt = 0
    /\ F = ZeroF
    /\ V_reactor = NoVolume
    /\ segment = 0
    /\ lastOutcome = "none"
    /\ Fprev = ZeroF
    /\ skipped = 0
    /\ loopErr = "None"
    /\ cause = "None"
    /\ raised = "None"
    /\ result = NoResult
    /\ NoRequests
    /\ NoRateCall

\* call r executes its next statement; the calls interleave statement by statement
RunStep(r) ==
    /\ ~Terminal(calls[r])
    /\ calls' = [calls EXCEPT ![r] = CallStep(LocalsOf(calls, r))]
    /\ UNCHANGED <<args, pc, kin, gasBuilt, F, V_reactor, segment, lastOutcome, Fprev,
                   skipped, loopErr, cause, raised, result>>
    /\ UNCHANGED <<serverVars, rateVars>>

NextRuns == \E r \in Runs : RunStep(r)

SpecRuns == InitRuns /\ [][NextRuns]_vars

\* every step of the call followed statement by statement is the step CallStep gives
CallStepIsNext == [][CurrentCall' = CallStep(CurrentCall)]_vars

-----------------------------------------------------------------------------
(* The DRM simulation history of the backend *)

MaxInserted == 12     \* largest number of simulation requests
MaxRemoved  == 1      \* largest number of successful deletes by id

\* "if count > 10", "limit(count - 10)", "limit(10)"
KeepLast == 10

\* DRMSimulationHistory(...): id is a fresh uuid, timestamp is utcnow; the
\* parameters, results and type stored with them play no part in pruning
DRMSimulationHistory(n) == [id |-> n, timestamp |-> n]

Ids(h) == {e.id : e \in h}

\* the entry of h with the smallest timestamp
Oldest(h) == CHOOSE e \in h : \A o \in h : e.timestamp <= o.timestamp

\* the entry of h with the largest timestamp
Newest(h) == CHOOSE e \in h : \A o \in h : e.timestamp >= o.timestamp

\* find().sort("timestamp", 1).limit(k).to_list(k)
RECURSIVE FindOldest(_, _)
FindOldest(h, k) ==
    IF k <= 0 \/ h = {} THEN <<>>
    ELSE <<Oldest(h)>> \o FindOldest(h \ {Oldest(h)}, k - 1)

\* find().sort("timestamp", -1).limit(k).to_list(k)
RECURSIVE FindNewest(_, _)
FindNewest(h, k) ==
    IF k <= 0 \/ h = {} THEN <<>>
    ELSE <<Newest(h)>> \o FindNewest(h \ {Newest(h)}, k - 1)

\* mutant of DeleteOne: the filter matches nothing
DeleteOneNothing(h, id) == h

\* delete_one({"id": id}): the collection without the first entry of that id
DeleteOne(h, id) ==
    IF id \in Ids(h) THEN h \ {CHOOSE e \in h : e.id = id} ELSE h

\* result.deleted_count of delete_one({"id": id}) on collection h
deleted_count(h, id) == Cardinality(h) - Cardinality(DeleteOne(h, id))

\* mutant of PruneLimit: one entry too few is pruned
PruneLimitShort(count) == count - KeepLast - 1

\* limit(count - 10)
PruneLimit(count) == count - KeepLast

\* return: the response leaves with the locals of the handler
Response(endpoint, status, body) ==
    [pc |-> "done", endpoint |-> endpoint, count |-> 0, oldest |-> <<>>,
     status |-> status, body |-> body]

\* await db.drm_simulations.insert_one(history_entry.dict())
InsertOne(c, endpoint) ==
    /\ reqs[c].pc = "idle"
    /\ inserted < MaxInserted
    /\ inserted' = inserted + 1
    /\ history' = history \cup {DRMSimulationHistory(inserted + 1)}
    /\ reqs' = [reqs EXCEPT ![c] = [IdleReq EXCEPT !.pc = "count", !.endpoint = endpoint]]
    /\ UNCHANGED removed

\* POST /simulate/drm up to the await of insert_one
SimulateDrmSingleInsert(c) == InsertOne(c, "simulate_drm_single")

\* POST /simulate/drm_timeseries up to the await of insert_one
SimulateDrmTimeseriesInsert(c) == InsertOne(c, "simulate_drm_timeseries")

\* count = await db.drm_simulations.count_documents({}); if count > 10
CountDocuments(c) ==
    /\ reqs[c].pc = "count"
    /\ reqs' = [reqs EXCEPT ![c] =
                 IF Cardinality(history) > KeepLast
                 THEN [@ EXCEPT !.pc = "find", !.count = Cardinality(history)]
                 ELSE Response(reqs[c].endpoint, 200, <<>>)]
    /\ UNCHANGED <<history, inserted, removed>>

\* oldest = await db.drm_simulations.find().sort("timestamp", 1).limit(count - 10)...
FindOldestStep(c) ==
    /\ reqs[c].pc = "find"
    /\ reqs' = [reqs EXCEPT ![c] =
                 IF FindOldest(history, PruneLimit(reqs[c].count)) = <<>>
                 THEN Response(reqs[c].endpoint, 200, <<>>)
                 ELSE [@ EXCEPT !.pc = "delete",
                                !.oldest = FindOldest(history, PruneLimit(reqs[c].count))]]
    /\ UNCHANGED <<history, inserted, removed>>

\* for old_sim in oldest: await db.drm_simulations.delete_one({"id": old_sim["id"]})
DeleteOld(c) ==
    /\ reqs[c].pc = "delete"
    /\ history' = DeleteOne(history, Head(reqs[c].oldest).id)
    /\ reqs' = [reqs EXCEPT ![c] =
                 IF Tail(reqs[c].oldest) = <<>>
                 THEN Response(reqs[c].endpoint, 200, <<>>)
                 ELSE [@ EXCEPT !.oldest = Tail(reqs[c].oldest)]]
    /\ UNCHANGED <<inserted, removed>>

\* GET /simulate/drm_history
GetDrmSimulationHistory(c) ==
    /\ reqs[c].pc = "idle"
    /\ reqs' = [reqs EXCEPT ![c] =
                 Response("get_drm_simulation_history", 200, FindNewest(history, KeepLast))]
    /\ UNCHANGED <<history, inserted, removed>>

\* DELETE /simulate/drm_history/{simulation_id}
DeleteDrmSimulation(c, simulation_id) ==
    /\ reqs[c].pc = "idle"
    /\ history' = DeleteOne(history, simulation_id)
    /\ IF deleted_count(history, simulation_id) = 0
       THEN /\ reqs' = [reqs EXCEPT ![c] = Response("delete_drm_simulation", 404, <<>>)]
            /\ UNCHANGED removed
       ELSE /\ Cardinality(removed) < MaxRemoved
            /\ reqs' = [reqs EXCEPT ![c] = Response("delete_drm_simulation", 200, <<>>)]
            /\ removed' = removed \cup {simulation_id}
    /\ UNCHANGED inserted

\* the client has its response and may send the next request
Return(c) ==
    /\ reqs[c].pc = "done"
    /\ reqs' = [reqs EXCEPT ![c] = IdleReq]
    /\ UNCHANGED <<history, inserted, removed>>

\* the variables of a pfr_drm call, which the history endpoints leave alone
callVars == <<args, pc, kin, gasBuilt, F, V_reactor, segment, lastOutcome, Fprev,
              skipped, loopErr, cause, raised, result, calls>>

InitHistory ==
    /\ NoRequests
    /\ NoRateCall
    /\ args = CHOOSE a \in RunArgs : TRUE
    /\ pc = "idle"
    /\ kin = NoKin
    /\ gasBuilt = 0
    /\ F = ZeroF
    /\ V_reactor = NoVolume
    /\ segment = 0
    /\ lastOutcome = "none"
    /\ Fprev = ZeroF
    /\ skipped = 0
    /\ loopErr = "None"
    /\ cause = "None"
    /\ raised = "None"
    /\ result = NoResult
    /\ calls = <<>>

\* the ids a client may ask to delete: 0 for an id never issued, or an issued id
DeleteTargets == 0 .. inserted

NextHistory ==
    \/ \E c \in Clients : SimulateDrmSingleInsert(c) /\ UNCHANGED <<callVars, rateVars>>
    \/ \E c \in Clients : SimulateDrmTimeseriesInsert(c) /\ UNCHANGED <<callVars, rateVars>>
    \/ \E c \in Clients : CountDocuments(c) /\ UNCHANGED <<callVars, rateVars>>
    \/ \E c \in Clients : FindOldestStep(c) /\ UNCHANGED <<callVars, rateVars>>
    \/ \E c \in Clients : DeleteOld(c) /\ UNCHANGED <<callVars, rateVars>>
    \/ \E c \in Clients : GetDrmSimulationHistory(c) /\ UNCHANGED <<callVars, rateVars>>
    \/ \E c \in Clients, id \in DeleteTargets : DeleteDrmSimulation(c, id) /\ UNCHANGED <<callVars, rateVars>>
    \/ \E c \in Clients : Return(c) /\ UNCHANGED <<callVars, rateVars>>

SpecHistory == InitHistory /\ [][NextHistory]_vars

\* no /simulate/drm or /simulate/drm_timeseries request is in flight
SimulationsCompleted == \A c \in Clients : reqs[c].pc \in {"idle", "done"}

\* the ids of the k most recently inserted entries
MostRecent(k) == {n \in 1 .. inserted : n > inserted - k}

-----------------------------------------------------------------------------
(* power_law_rate called on its own *)

\* pre-exponential factors: negative, tending to 0, the DRM default, inf
RateAs == {-A_drm_default, TinyA, A_drm_default, InfA}

\* activation energies: so negative that math.exp overflows, 0, the DRM default,
\* past the underflow floor
RateEs == {-ESuperHigh, 0, E_drm_default, ESuperHigh}

\* gas.T in centi-K: 0 K and 825 C
RateTs == {0, 82500 - AbsZeroC}

\* order maps: none, the DRM default, a zero order, a negative order on CH4, a
\* negative order on a species the pressure maps do not hold
RateOrders ==
    {<<>>,
     orders_drm_default,
     [sp \in {"CH4", "CO2"} |-> IF sp = "CH4" THEN 0 ELSE 1],
     [sp \in {"CH4", "CO2"} |-> IF sp = "CH4" THEN -1 ELSE 1],
     [sp \in {"CO2", "H2"} |-> IF sp = "H2" THEN -1 ELSE 1]}

\* partial pressures in kPa: negative, exactly zero, positive
RatePs == {-5, 0, 50}

\* pressure maps: with CH4 and CO2, or with CO2 only
RatePressureMaps == [{"CH4", "CO2"} -> RatePs] \cup [{"CO2"} -> RatePs]

RateArgSpace ==
    [A : RateAs, E : RateEs, orders : RateOrders, T : RateTs, p_i : RatePressureMaps]

InitRate ==
    /\ rateArgs \in RateArgSpace
    /\ rateOut = NoRateOut
    /\ NoRequests
    /\ args = CHOOSE a \in RunArgs : TRUE
    /\ pc = "idle"
    /\ kin = NoKin
    /\ gasBuilt = 0
    /\ F = ZeroF
    /\ V_reactor = NoVolume
    /\ segment = 0
    /\ lastOutcome = "none"
    /\ Fprev = ZeroF
    /\ skipped = 0
    /\ loopErr = "None"
    /\ cause = "None"
    /\ raised = "None"
    /\ result = NoResult
    /\ calls = <<>>

\* power_law_rate(A, E, orders, gas, p_i) runs on the arguments
CallPowerLawRate ==
    /\ rateOut = NoRateOut
    /\ rateOut' = power_law_rate(rateArgs.A, rateArgs.E, rateArgs.orders,
                                 build_gas(rateArgs.T, one_atm), rateArgs.p_i)
    /\ UNCHANGED <<rateArgs, callVars, serverVars>>

NextRate == CallPowerLawRate

SpecRate == InitRate /\ [][NextRate]_vars

\* some species of the order map has a negative order and a partial pressure that
\* is zero, below zero (clamped to zero) or absent from the pressure map
NegativeOrderOnZero(a) ==
    \E sp \in DOMAIN a.orders :
        /\ a.orders[sp] < 0
        /\ sp \in DOMAIN a.p_i => a.p_i[sp] <= 0

\* the call got as far as the exponent and found it below -700
ExponentBelowFloor(a) == a.T > 0 /\ BelowFloor(a.E, build_gas(a.T, one_atm))

-----------------------------------------------------------------------------
(* Atom balances and mole fractions *)

\* carbon atoms carried by a flow vector: CH4, CO2 and CO hold one each
Carbon(Fv) == Fv["CH4"] + Fv["CO2"] + Fv["CO"]

\* hydrogen atoms carried by a flow vector: 4 in CH4, 2 in H2, 2 in H2O
Hydrogen(Fv) == 4 * Fv["CH4"] + 2 * Fv["H2"] + 2 * Fv["H2O"]

\* the sum of the numerators of the returned mole fractions
SumReturned(res) ==
    res.y["H2"] + res.y["CH4"] + res.y["CO"] + res.y["CO2"] + res.y["H2O"]

\* every argument is a number
WellTyped(a) == a.GHSV # NotNumber

\* the conditions of the pre-flight checks, on arguments that are numbers
InvalidArgs(a) ==
    /\ WellTyped(a)
    /\ \/ a.T_C < -27315
       \/ a.P_bar <= 0
       \/ a.fCH4 < 0 \/ a.fCO2 < 0 \/ a.fN2 < 0
       \/ a.fCH4 + a.fCO2 + a.fN2 <= 0
       \/ a.GHSV <= 0
       \/ a.nseg <= 0

\* the loop body raises in the current state
StepRaises ==
    /\ pc = "segment"
    /\ segment < args.nseg
    /\ FSum(F) > 0
    /\ SegmentRates(F, Kin(kin), TK(args), PPa(args)).err # "None"

-----------------------------------------------------------------------------
(* Claims *)

\* C1: when pfr_drm is called with an input that fails pre-flight validation
\* (T_C = -300, P_bar = 0, GHSV = 0 or a negative inlet CH4 rate, every other input
\* valid), the error the caller receives is an InputValidationError.
C1_CallerReceivesInputValidationError ==
    (/\ pc = "raised"
     /\ args.fCO2 > 0 /\ args.fN2 >= 0 /\ args.nseg > 0
     /\ \/ args.T_C = -30000 /\ args.P_bar = 1 /\ args.GHSV > 0 /\ args.fCH4 > 0
        \/ args.T_C = 82500 /\ args.P_bar = 0 /\ args.GHSV > 0 /\ args.fCH4 > 0
        \/ args.T_C = 82500 /\ args.P_bar = 1 /\ args.GHSV = 0 /\ args.fCH4 > 0
        \/ args.T_C = 82500 /\ args.P_bar = 1 /\ args.GHSV > 0 /\ args.fCH4 < 0)
    => IsInstance(raised, "InputValidationError")

\* C2: carbon conservation: after every loop iteration the carbon flow
\* F_CH4 + F_CO2 + F_CO equals its value before the iteration, so the outlet carbon
\* flow equals the inlet carbon flow (to a relative tolerance of 1e-6).
C2_CarbonConserved ==
    lastOutcome # "none" =>
        /\ Carbon(F) - Carbon(Fprev) <= Carbon(Fprev) \div 1000000
        /\ Carbon(Fprev) - Carbon(F) <= Carbon(Fprev) \div 1000000

\* C3: hydrogen conservation: after every loop iteration the hydrogen-atom flow
\* 4*F_CH4 + 2*F_H2 + 2*F_H2O equals its value before the iteration (to a
\* relative tolerance of 1e-6).
C3_HydrogenConserved ==
    lastOutcome # "none" =>
        /\ Hydrogen(F) - Hydrogen(Fprev) <= Hydrogen(Fprev) \div 1000000
        /\ Hydrogen(Fprev) - Hydrogen(F) <= Hydrogen(Fprev) \div 1000000

\* C4: normalisation: the mole fractions of every returned result sum to 1
\* within 1e-6.
C4_ReturnedFractionsSumToOne ==
    pc = "returned" =>
        /\ result.Ftot > 0
        /\ result.Ftot - SumReturned(result) <= result.Ftot \div 1000000
        /\ SumReturned(result) - result.Ftot <= result.Ftot \div 1000000

\* C5: in every state of a run (the inlet vector and the vector after each loop
\* iteration, skipped ones included) all six entries of the flow vector are >= 0.
C5_FlowsNonNegative ==
    \A sp \in Species : F[sp] >= 0 /\ Fprev[sp] >= 0

\* C5 witness: an update in which the clamp acted on a flow that was positive
C5_Witness ==
    /\ lastOutcome = "updated"
    /\ Fprev["CH4"] > 0
    /\ F["CH4"] = 0
    /\ F["CO"] > Fprev["CO"] + 2 * Fprev["CH4"]

\* C6: every mole fraction of a returned result is >= 0 and <= 1.
C6_FractionsInUnitInterval ==
    pc = "returned" =>
        \A sp \in ReturnedSpecies : result.y[sp] >= 0 /\ result.y[sp] <= result.Ftot

\* C6 witness: a result returned after a skipped segment, with a positive fraction
C6_Witness ==
    /\ pc = "returned"
    /\ skipped > 0
    /\ result.y["CO"] > 0
    /\ result.y["CO"] < result.Ftot

\* C7: if the loop body raises, the flow vector after the segment is the one before
\* it, the loop goes on to the next segment, and the run never ends with an error:
\* it stops only in the state that has returned a result.
C7_FailedSegmentIsSkipped ==
    /\ [][StepRaises => /\ F' = F
                        /\ segment' = segment + 1
                        /\ pc' \in {"segment", "finish"}]_vars
    /\ [](skipped > 0 => /\ pc \in {"segment", "finish", "returned"}
                         /\ raised = "None"
                         /\ (pc = "returned" => result # NoResult)
                         /\ (pc # "returned" => ENABLED Next))

\* C7 witness: a segment was updated, a later one raised KineticsError and was
\* skipped, and the call returned
C7_Witness ==
    /\ pc = "returned"
    /\ skipped > 0
    /\ loopErr = "KineticsError"
    /\ lastOutcome = "skipped"
    /\ F = Fprev
    /\ F["H2"] > 0

\* C8 (as claimed): FAILED is reachable from every non-terminal state: a run in
\* SEGMENT_STEPPING can still take a step to FAILED.
C8_FailedReachableFromStepping ==
    Phase = "SEGMENT_STEPPING" => ENABLED (Next /\ pc' \in {"except", "raised"})

\* C8 (amended): INITIALIZING -> SEGMENT_STEPPING -> COMPLETED, and FAILED is
\* entered from INITIALIZING only: a run in SEGMENT_STEPPING stays there or
\* completes, and COMPLETED and FAILED are never left.
C8_FailedOnlyFromInitializing ==
    [][/\ Phase = "INITIALIZING" => Phase' \in {"INITIALIZING", "SEGMENT_STEPPING", "FAILED"}
       /\ Phase = "SEGMENT_STEPPING" => Phase' \in {"SEGMENT_STEPPING", "COMPLETED"}
       /\ Phase = "COMPLETED" => Phase' = "COMPLETED"
       /\ Phase = "FAILED" => Phase' = "FAILED"]_vars

\* C8 witness: every segment of a run raised and the run is COMPLETED
C8_Witness ==
    /\ Phase = "COMPLETED"
    /\ segment = args.nseg
    /\ skipped = args.nseg
    /\ cause = "None"

\* C9: an error raised during initialisation (validation, building the inlet gas
\* state, converting the inlet rates) surfaces to the caller: the call goes through
\* the outer except clause to raise an error, no loop iteration has run and no
\* result is returned.
C9_InitErrorSurfaces ==
    cause # "None" =>
        /\ pc \in {"except", "raised"}
        /\ pc = "except" => ENABLED OuterExcept
        /\ pc = "raised" => raised \in ErrorClasses
        /\ segment = 0
        /\ lastOutcome = "none"
        /\ F = ZeroF
        /\ result = NoResult

\* C9 witness: validation passed, building the inlet gas state raised, and the
\* caller has received the error
C9_Witness ==
    /\ pc = "raised"
    /\ ~InvalidArgs(args)
    /\ cause = "ThermodynamicsError"
    /\ gasBuilt = 1

\* C10: validation is fail-fast: with T_C < -273.15, P_bar <= 0, an inlet rate < 0,
\* a sum of the inlet rates <= 0, GHSV <= 0 or nseg <= 0 the call raises, on an
\* InputValidationError thrown inside it, before any gas state is built and before
\* any loop iteration; and once the loop has been entered no InputValidationError
\* is raised.
C10_ValidationFailsFast ==
    /\ InvalidArgs(args) =>
          /\ pc \in {"validate", "except", "raised"}
          /\ pc # "validate" => cause = "InputValidationError"
          /\ pc = "raised" => raised \in ErrorClasses
          /\ gasBuilt = 0
          /\ segment = 0
          /\ lastOutcome = "none"
    /\ pc \in {"segment", "finish", "returned"} =>
          /\ cause # "InputValidationError"
          /\ loopErr # "InputValidationError"

\* C10 witness: only nseg is invalid, and the call has raised without building a gas
C10_Witness ==
    /\ pc = "raised"
    /\ args.nseg = 0
    /\ args.T_C = 82500 /\ args.P_bar = 1 /\ args.GHSV > 0
    /\ args.fCH4 > 0 /\ args.fCO2 > 0 /\ args.fN2 = 0
    /\ cause = "InputValidationError"
    /\ gasBuilt = 0

\* C11: every error pfr_drm raises to its caller, whatever raised it inside the
\* call (validation, thermodynamics, kinetics, or an exception that is no domain
\* error), is an instance of PFRModelError.
C11_RaisedIsPFRModelError ==
    /\ pc = "raised" => IsInstance(raised, "PFRModelError")
    /\ raised # "None" => IsInstance(raised, "PFRModelError")

\* C11 witness: a TypeError thrown by validate_inputs has reached the caller as a
\* PFRModelError
C11_Witness ==
    /\ pc = "raised"
    /\ cause = "TypeError"
    /\ ~IsInstance(cause, "PFRModelError")
    /\ raised = "PFRModelError"

\* a pair of calls with identical inputs that have both ended
SameInputsEnded(r1, r2) ==
    /\ r1 # r2
    /\ calls[r1].args = calls[r2].args
    /\ Terminal(calls[r1]) /\ Terminal(calls[r2])

C14_Terminates ==
    /\ [](segment <= Max(args.nseg, 0) /\ gasBuilt <= 2 + Max(args.nseg, 0))
    /\ [][pc = "segment" => \/ segment' = segment + 1 /\ pc' \in {"segment", "finish"}
                            \/ segment' = segment /\ pc' = "finish"
                                                 /\ lastOutcome' = "early_exit"]_vars
    /\ <>(pc \in {"returned", "raised"})
    /\ [](pc = "returned" => result # NoResult /\ raised = "None")
    /\ [](pc = "raised" => result = NoResult /\ raised # "None")

\* C14 witness: a call that ran all MaxNseg iterations, one of them skipped, has
\* returned
C14_Witness ==
    /\ pc = "returned"
    /\ args.nseg = MaxNseg
    /\ segment = MaxNseg
    /\ skipped > 0 /\ skipped < MaxNseg
    /\ gasBuilt = 2 + MaxNseg

\* C15: null-kinetics boundary: with pre-exponential factors -> 0+ (both forward
\* rates effectively zero in every segment) the flow vector stays the inlet flow
\* vector through all nseg segments, and the returned composition is the inlet
\* composition.
C15_NullKineticsKeepsInlet ==
    (args.kin = "Null" /\ pc \in {"segment", "finish", "returned"}) =>
        LET F0 == InletOutcome(args).F
        IN  /\ F = F0
            /\ lastOutcome # "none" => Fprev = F0
            /\ skipped = 0
            /\ pc = "returned" =>
                  \A sp \in ReturnedSpecies :
                      result.y[sp] * FSum(F0) = F0[sp] * result.Ftot

\* C15 witness: a call with null kinetics and both reactants in the feed has run all
\* its segments as updates and returned
C15_Witness ==
    /\ pc = "returned"
    /\ args.kin = "Null"
    /\ args.nseg = MaxNseg /\ segment = MaxNseg
    /\ lastOutcome = "updated"
    /\ F["CH4"] > 0 /\ F["CO2"] > 0 /\ F["N2"] > 0
    /\ result.y["CH4"] > 0 /\ result.y["CO"] = 0

\* C16: for T_C=825, P_bar=1.0, CH4=700, CO2=300, N2=0, GHSV=10000, nseg=400 and
\* default kinetics the call succeeds and returns y_CH4 < 0.7, y_CO2 < 0.3,
\* y_H2 > 0 and y_CO > 0.
C16_ScenarioConverts ==
    args = Scenario =>
        /\ pc \notin {"except", "raised"}
        /\ raised = "None"
        /\ pc = "returned" =>
              /\ result.Ftot > 0
              /\ result.y["CH4"] * 10 < 7 * result.Ftot
              /\ result.y["CO2"] * 10 < 3 * result.Ftot
              /\ result.y["H2"] > 0
              /\ result.y["CO"] > 0

\* C16 witness: the case has run its 400 segments without a skip and returned
C16_Witness ==
    /\ args = Scenario
    /\ pc = "returned"
    /\ segment = 400
    /\ skipped = 0
    /\ result # NoResult

\* C17: the history keeps only the last 10 runs: once every /simulate/drm and
\* /simulate/drm_timeseries request has completed (no delete by id among the
\* requests), interleaved or not, the stored history is exactly the min(N, 10)
\* most recently inserted entries.
C17_KeepsLastTen ==
    SimulationsCompleted /\ removed = {} => Ids(history) = MostRecent(KeepLast)

\* C18: deleting a history entry by id: if an entry with that id exists the delete
\* succeeds (200), the entry is gone, all other entries are unchanged and every
\* later history read is without that id; if no entry has that id the delete
\* returns 404 and the history is unchanged.
C18_DeleteById ==
    [][/\ \A c \in Clients, id \in DeleteTargets :
            DeleteDrmSimulation(c, id) =>
                /\ id \in Ids(history) =>
                      /\ reqs'[c].status = 200
                      /\ history' = {e \in history : e.id # id}
                      /\ id \in removed'
                /\ id \notin Ids(history) =>
                      /\ reqs'[c].status = 404
                      /\ history' = history
       /\ \A id \in removed : id \notin Ids(history')
       /\ \A c \in Clients :
            GetDrmSimulationHistory(c) =>
                \A i \in DOMAIN reqs'[c].body : reqs'[c].body[i].id \notin removed
      ]_vars

\* C18 witness: one client's delete of an existing id has succeeded, and the other
\* client's history read, made after it, spans that id without holding it
C18_Witness ==
    \E c, d \in Clients :
        /\ reqs[c] = Response("delete_drm_simulation", 200, <<>>)
        /\ reqs[d].pc = "done"
        /\ reqs[d].endpoint = "get_drm_simulation_history"
        /\ \E id \in removed, i, j \in DOMAIN reqs[d].body :
              /\ reqs[d].body[i].id > id
              /\ reqs[d].body[j].id < id
              /\ \A k \in DOMAIN reqs[d].body : reqs[d].body[k].id # id

\* the rates of the segment about to run are within [0, forward rate]
RatesBounded(r) ==
    r.err = "None" =>
        /\ 0 <= r.r_drm_net /\ r.r_drm_net <= r.r_drm_f
        /\ 0 <= r.r_rwgs_net /\ r.r_rwgs_net <= r.r_rwgs_f

\* C19: in every segment, for DRM and RWGS, 0 <= net_rate <= forward_rate, and in
\* every successful segment update F_CH4 and F_CO2 do not increase while F_CO and
\* F_H2O do not decrease.
C19_NetRatesBounded ==
    /\ (pc = "segment" /\ segment < args.nseg /\ FSum(F) > 0) =>
           Bind(SegmentRates(F, Kin(kin), TK(args), PPa(args)), RatesBounded)
    /\ lastOutcome = "updated" =>
           /\ F["CH4"] <= Fprev["CH4"]
           /\ F["CO2"] <= Fprev["CO2"]
           /\ F["CO"] >= Fprev["CO"]
           /\ F["H2O"] >= Fprev["H2O"]

\* the damping is at work: a net rate strictly between 0 and the forward rate
RatesDamped(r) ==
    /\ r.err = "None"
    /\ \/ 0 < r.r_drm_net /\ r.r_drm_net < r.r_drm_f
       \/ 0 < r.r_rwgs_net /\ r.r_rwgs_net < r.r_rwgs_f

\* C19 witness: an update has consumed CH4 and CO2 and produced CO and H2O, and
\* the next segment has a damped net rate
C19_Witness ==
    /\ lastOutcome = "updated"
    /\ F["CH4"] < Fprev["CH4"]
    /\ F["CO2"] < Fprev["CO2"]
    /\ F["CO"] > Fprev["CO"]
    /\ F["H2O"] > Fprev["H2O"]
    /\ pc = "segment" /\ segment < args.nseg /\ FSum(F) > 0
    /\ Bind(SegmentRates(F, Kin(kin), TK(args), PPa(args)), RatesDamped)

\* C20: early exit: if at the start of a segment the total of the flow vector is
\* <= 1e-30, the loop is left (no gas state is built, the loop index and the flow
\* vector stay), no further segment is executed, and the result is computed from
\* the flow vector as it was at that point.
C20_EarlyExit ==
    [][/\ (pc = "segment" /\ segment < args.nseg /\ FSum(F) <= 0) =>
             /\ pc' = "finish"
             /\ lastOutcome' = "early_exit"
             /\ F' = F /\ segment' = segment /\ gasBuilt' = gasBuilt
       /\ lastOutcome = "early_exit" =>
             /\ pc' = "returned"
             /\ F' = F /\ segment' = segment /\ gasBuilt' = gasBuilt
             /\ \A sp \in ReturnedSpecies : result'.y[sp] = F[sp]
             /\ result'.Ftot = FSum(F)
      ]_vars

\* C20 witness: a call with several segments to run left the loop at the first,
\* having built the two gas states of the initialisation only, and has returned
C20_Witness ==
    /\ lastOutcome = "early_exit"
    /\ pc = "returned"
    /\ args.nseg >= 2
    /\ segment = 0
    /\ gasBuilt = 2
    /\ result # NoResult /\ result.Ftot = FSum(Fprev)

\* C21: whenever pfr_drm is executing segment steps the run invariants hold:
\* V > 0, dV = V / nseg > 0, nseg > 0, and the kinetics in use have A_drm > 0,
\* A_rwgs > 0, E_drm >= 0 and E_rwgs >= 0, for every KineticsParams object a
\* caller can pass, one whose fields were changed after construction included.
C21_RunInvariants ==
    pc = "segment" =>
        /\ V_reactor.num > 0 /\ V_reactor.den > 0
        /\ args.nseg > 0
        /\ V_reactor.num > 0 /\ V_reactor.den * args.nseg > 0
        /\ Kin(kin).A_drm > 0 /\ Kin(kin).A_rwgs > 0
        /\ Kin(kin).E_drm >= 0 /\ Kin(kin).E_rwgs >= 0

\* C22: power_law_rate raises KineticsError whenever some species of the order map
\* has a negative order and a partial pressure of exactly zero (or is absent from
\* the pressure map), whatever the rate constant is.
C22_NegativeOrderRaises ==
    (rateOut # NoRateOut /\ NegativeOrderOnZero(rateArgs)) =>
        rateOut.err = "KineticsError"

\* C22 witness: the call raised on a negative order of an absent species, with an
\* activation energy past the floor (k = 0)
C22_Witness ==
    /\ rateOut # NoRateOut
    /\ rateOut.err = "KineticsError"
    /\ rateArgs.T > 0
    /\ rateArgs.E = ESuperHigh
    /\ rateArgs.A = A_drm_default
    /\ "H2" \in DOMAIN rateArgs.orders
    /\ "H2" \notin DOMAIN rateArgs.p_i

C24_FiniteOrKineticsError ==
    rateOut # NoRateOut =>
        /\ rateOut.err \in {"None", "KineticsError"}
        /\ rateOut.err = "None" =>
              /\ rateOut.rate >= 0
              /\ rateOut.rate < QuotCap
              /\ rateArgs.A = InfA => ExponentBelowFloor(rateArgs)

\* C24 witness: math.exp overflowed on a large negative activation energy, with
\* positive pressures and positive orders, and the call raised KineticsError
C24_Witness ==
    /\ rateOut # NoRateOut
    /\ rateArgs.T > 0
    /\ rateArgs.E = -ESuperHigh
    /\ rateArgs.orders = orders_drm_default
    /\ \A sp \in DOMAIN rateArgs.orders : sp \in DOMAIN rateArgs.p_i /\ rateArgs.p_i[sp] > 0
    /\ rateOut.err = "KineticsError"

\* the volumetric feed rate the caller supplied, (fCH4 + fCO2 + fN2) ml/min, in
\* units of 1e-9 m^3/s times 60 (a rate of 1 is 0.001 ml/min)
SuppliedTimes60(a) == a.fCH4 + a.fCO2 + a.fN2

\* C25: unit round trip at initialisation: the inlet volumetric flow Vdot_in that
\* pfr_drm computes from the inlet molar flows (F_total*R*T/P) equals the
\* volumetric feed rate the caller supplied (to 1 %, the resolution of the flow
\* grid), so that the reactor volume is (supplied volumetric flow)/GHSV.
C25_VolumetricRoundTrip ==
    (pc = "segment" /\ segment = 0 /\ FSum(F) > 0) =>
        LET v == Vdot_in(F, TK(args), PPa(args))
            s == SuppliedTimes60(args)
        IN  /\ v * 60 <= s + s \div 100
            /\ v * 60 >= s - s \div 100
            /\ V_reactor.den = args.GHSV =>
                  /\ V_reactor.num * 60 <= s + s \div 100
                  /\ V_reactor.num * 60 >= s - s \div 100

\* C26: skips are absorbing: once one segment of a run is skipped, every later
\* segment of that run is skipped too (the flow vector, T, P and the kinetics are
\* as they were, and the step is a function of them), and the result equals the
\* flow vector as it was before the first skipped segment.
C26_SkipsAbsorbing ==
    /\ [][(skipped > 0 /\ pc = "segment") =>
             /\ lastOutcome' = "skipped"
             /\ skipped' = skipped + 1
             /\ loopErr' = loopErr
             /\ F' = F]_vars
    /\ [](skipped > 0 =>
             /\ lastOutcome = "skipped"
             /\ F = Fprev
             /\ pc = "returned" =>
                   /\ \A sp \in ReturnedSpecies : result.y[sp] = Fprev[sp]
                   /\ result.Ftot = FSum(Fprev))

\* C26 witness: the first segment was updated, the two after it were skipped, and
\* the call returned the flows the update had left
C26_Witness ==
    /\ pc = "returned"
    /\ segment = 3
    /\ skipped = 2
    /\ F["CO"] > 0
    /\ result.y["CO"] = F["CO"]

C28_N2Inert ==
    pc \in {"segment", "finish", "returned"} =>
        /\ F["N2"] = InletOutcome(args).F["N2"]
        /\ lastOutcome # "none" => Fprev["N2"] = F["N2"]
        /\ args.fN2 = 0 => F["N2"] = 0

\* C28 witness: with N2 in the feed, a segment in which RWGS ran has been updated
C28_Witness ==
    /\ lastOutcome = "updated"
    /\ args.fN2 > 0
    /\ F["N2"] > 0
    /\ F["H2O"] > Fprev["H2O"]
    /\ F["CO2"] < Fprev["CO2"]

OrdersOmitted == {NoKin, "Slow", "HugeE", "Null", "Mutated"}

\* a valid call whose feed holds one of the two reactants only, with kinetics that
\* have the default reaction orders
OneReactantOnly(a) ==
    /\ WellTyped(a)
    /\ a.T_C >= AbsZeroC /\ a.P_bar > 0 /\ a.GHSV > 0 /\ a.nseg > 0
    /\ a.fCH4 >= 0 /\ a.fCO2 >= 0 /\ a.fN2 >= 0
    /\ a.fCH4 = 0 \/ a.fCO2 = 0
    /\ a.fCH4 + a.fCO2 + a.fN2 > 0
    /\ a.kin \in OrdersOmitted

\* C30: with the default reaction orders, if the inlet holds only one of the two
\* reactants (CH4 rate = 0 or CO2 rate = 0, the sum of the inlet rates positive),
\* validation passes and no reaction occurs: the flow vector after every segment
\* equals the inlet flow vector, and CO, H2 and H2O stay at 0.
C30_OneReactantNoReaction ==
    OneReactantOnly(args) =>
        /\ ~ValidateInputsRaises(args.T_C, args.P_bar, flow_rates(args), args.GHSV)
        /\ cause # "InputValidationError"
        /\ pc # "validate" => pc \in {"inlet", "segment", "finish", "returned",
                                       "except", "raised"}
        /\ pc \in {"segment", "finish", "returned"} =>
              /\ F = InletOutcome(args).F
              /\ lastOutcome # "none" => Fprev = F
              /\ F["CO"] = 0 /\ F["H2"] = 0 /\ F["H2O"] = 0
              /\ skipped = 0

\* C30 witness: a feed of CH4 alone went through several updated segments and the
\* call returned the inlet flows
C30_Witness ==
    /\ OneReactantOnly(args)
    /\ pc = "returned"
    /\ args.fCO2 = 0
    /\ F["CH4"] > 0
    /\ segment >= 2
    /\ lastOutcome = "updated"
    /\ result.y["CH4"] = result.Ftot - F["N2"]

=============================================================================
